---- MODULE Spec2Model ----
(***************************************************************************)
(* Registration and claim handlers of the ore program                      *)
(* (src/processor/register.rs, src/processor/claim.rs, src/consts.rs).     *)
(*                                                                         *)
(* Token amounts are Rust u64 values.  They exceed the range of the model  *)
(* checker's integers, so an amount is represented exactly, as the         *)
(* little-endian sequence of its base-10000 digits without leading zero    *)
(* digits (0 is <<>>).  Timestamps (i64 seconds) stay far below the i64    *)
(* bound and are plain integers.                                           *)
(***************************************************************************)
EXTENDS Integers, Sequences, FiniteSets, TLC

\* ------------------------------------------------------------------------
\* Exact unsigned arithmetic on digit sequences
\* ------------------------------------------------------------------------

RECURSIVE Norm(_)
Norm(a) ==
    IF a = <<>> THEN <<>>
    ELSE IF a[Len(a)] = 0 THEN Norm(SubSeq(a, 1, Len(a) - 1))
    ELSE a

RECURSIVE AddC(_, _, _)
AddC(a, b, c) ==
    IF a = <<>> /\ b = <<>> THEN (IF c = 0 THEN <<>> ELSE <<c>>)
    ELSE LET x == IF a = <<>> THEN 0 ELSE Head(a)
             y == IF b = <<>> THEN 0 ELSE Head(b)
             s == x + y + c
         IN  <<s % 10000>> \o AddC(IF a = <<>> THEN <<>> ELSE Tail(a),
                                   IF b = <<>> THEN <<>> ELSE Tail(b),
                                   s \div 10000)

BigAdd(a, b) == AddC(a, b, 0)

RECURSIVE CmpFrom(_, _, _)
CmpFrom(a, b, i) ==
    IF i = 0 THEN 0
    ELSE IF a[i] < b[i] THEN -1
    ELSE IF a[i] > b[i] THEN 1
    ELSE CmpFrom(a, b, i - 1)

BigCmp(a, b) ==
    IF Len(a) < Len(b) THEN -1
    ELSE IF Len(a) > Len(b) THEN 1
    ELSE CmpFrom(a, b, Len(a))

BigLeq(a, b) == BigCmp(a, b) <= 0

BigLt(a, b) == BigCmp(a, b) < 0

RECURSIVE SubB(_, _, _)
SubB(a, b, w) ==
    IF a = <<>> THEN <<>>
    ELSE LET y == IF b = <<>> THEN 0 ELSE Head(b)
             d == Head(a) - y - w
         IN  <<d % 10000>> \o SubB(Tail(a),
                                   IF b = <<>> THEN <<>> ELSE Tail(b),
                                   IF d < 0 THEN 1 ELSE 0)

\* a - b for a >= b
BigSub(a, b) == Norm(SubB(a, b, 0))

\* a * k for a small integer k (0 <= k < 200000), digit by digit with carry
RECURSIVE MulC(_, _, _)
MulC(a, k, c) ==
    IF a = <<>> THEN (IF c = 0 THEN <<>> ELSE <<c % 10000>> \o MulC(a, k, c \div 10000))
    ELSE LET p == Head(a) * k + c
         IN  <<p % 10000>> \o MulC(Tail(a), k, p \div 10000)

BigMul(a, k) == Norm(MulC(a, k, 0))

\* quotient and remainder of a by the small integer k (0 < k < 200000),
\* by long division from the most significant digit
RECURSIVE DivRem(_, _)
DivRem(a, k) ==
    IF a = <<>> THEN [q |-> <<>>, r |-> 0]
    ELSE LET hi == DivRem(Tail(a), k)
             n  == hi.r * 10000 + Head(a)
         IN  [q |-> <<n \div k>> \o hi.q, r |-> n % k]

BigDiv(a, k) == Norm(DivRem(a, k).q)

\* The digit sequence of a natural number of the model
RECURSIVE Big(_)
Big(n) == IF n = 0 THEN <<>> ELSE <<n % 10000>> \o Big(n \div 10000)

\* a * b, digit of b by digit of b
RECURSIVE BigTimes(_, _)
BigTimes(a, b) ==
    IF b = <<>> THEN <<>>
    ELSE BigAdd(BigMul(a, Head(b)), Norm(<<0>> \o BigTimes(a, Tail(b))))

\* base^exp
RECURSIVE BigPow(_, _)
BigPow(base, exp) ==
    IF exp = 0 THEN <<1>> ELSE BigMul(BigPow(base, exp - 1), base)

\* u64::MAX = 18446744073709551615
U64_MAX == <<1615, 955, 737, 6744, 1844>>

\* ------------------------------------------------------------------------
\* Constants of the program and bounds of the model
\* ------------------------------------------------------------------------

\* The duration of one day, in seconds.
ONE_DAY == 86400

\* The maximum token supply (42 million): ONE_ORE * 42_000_000 = 42 * 10^17.
MAX_SUPPLY == <<0, 0, 0, 0, 420>>

\* The decimal precision of the Ore token.
TOKEN_DECIMALS == 11

\* The number of minutes in an Ore epoch.
EPOCH_MINUTES == 1

\* A shard count of seven.
BUS_COUNT_SEVEN == 8 - 1

\* The number of bus accounts, for parallelizing mine operations.
BUS_COUNT == 8

\* Clock value (unix seconds) of the first state.
StartTime == 1000000

\* The clock advances up to one day beyond StartTime.
MaxTime == StartTime + ONE_DAY

\* Number of steps of one behaviour that change an account: successful
\* registrations, mining steps and successful claims.
MaxOps == 4

\* Number of distinct randomness-beacon entries.
NumSlotHashes == 2

Miners == {"alice", "bob"}

\* The token account a signer passes as beneficiary.
TokenAccount(signer) == <<"tokens", signer>>

Beneficiaries == {TokenAccount(m) : m \in Miners}

\* The clock advances by half days.
TickSteps == {ONE_DAY \div 2}

\* The reward of a mining step, the amounts the epoch resets have minted
\* into the treasury before the first state, and the amounts of claim calls:
\* 0, 501 and 10^15 as digit sequences.
RewardAmounts == {<<0, 0, 0, 1000>>}

MintedAmounts == {<<>>, <<0, 0, 0, 1000>>}

ClaimAmounts == {<<>>, <<501>>, <<0, 0, 0, 1000>>}

\* ------------------------------------------------------------------------
\* Accounts
\* ------------------------------------------------------------------------

\* The proof account derived from the seeds (PROOF, signer key).
ProofAddress(signer) == <<"proof", signer>>

\* The bump that completes the seeds of a signer's proof address.
ProofBump(signer) == IF signer = "alice" THEN 255 ELSE 254

ProofAddresses == {ProofAddress(m) : m \in Miners}

Bumps == {ProofBump(m) : m \in Miners}

ZeroHash == <<"zero", "", 0>>

\* blake3 hashv over the signer key and the first slot-hashes entry,
\* kept symbolic (and so injective).
Hashv(key, slot_hash) == <<"hashv", key, slot_hash>>

\* An account without data, and the zero-filled data of a fresh allocation.
ZeroProof ==
    [disc |-> "zero", authority |-> "", balance |-> <<>>, challenge |-> ZeroHash,
     last_claim_at |-> 0, last_hash |-> ZeroHash, last_hash_at |-> 0,
     last_stake_at |-> 0, total_hashes |-> <<>>, total_rewards |-> <<>>]

\* Proof::discriminator(), the first byte of an initialized proof account.
ProofDiscriminator == "Proof"

VARIABLES
    proofs,           \* proof accounts, by address
    treasury_tokens,  \* amount held by the treasury token account
    mint_supply,      \* supply recorded in the mint
    tokens,           \* amount held by each beneficiary token account
    burned,           \* total burned so far (history)
    now,              \* Clock unix_timestamp
    slot_hash,        \* first entry of the slot-hashes sysvar
    nops,             \* steps so far that changed an account
    claimed,          \* sum of the amounts of the successful claims on each
                      \* proof account (history)
    last              \* the call that led to this state: inputs, outcome
                      \* and what the accounts it names held before it

vars == <<proofs, treasury_tokens, mint_supply, tokens, burned, now,
          slot_hash, nops, claimed, last>>

\* The accounts a handler reads and writes.
Ledger ==
    [proofs |-> proofs, vault |-> treasury_tokens, supply |-> mint_supply,
     tokens |-> tokens, burned |-> burned]

\* What the accounts a call on proof account p names hold.
Before(p) ==
    [proof |-> proofs[p], vault |-> treasury_tokens, supply |-> mint_supply,
     tokens |-> tokens, burned |-> burned]

NoCall ==
    [op |-> "none", signed |-> TRUE, signer |-> "",
     proof |-> ProofAddress("alice"), amount |-> <<>>,
     bump |-> 0, res |-> "Ok", step |-> "none", burn |-> <<>>,
     paid |-> <<>>, moved |-> <<>>]

Init ==
    /\ proofs = [a \in ProofAddresses |-> ZeroProof]
    /\ treasury_tokens \in MintedAmounts
    /\ mint_supply = treasury_tokens
    /\ tokens = [d \in Beneficiaries |-> <<>>]
    /\ burned = <<>>
    /\ now = StartTime
    /\ slot_hash = 0
    /\ nops = 0
    /\ claimed = [a \in ProofAddresses |-> <<>>]
    /\ last = [call |-> NoCall, pre |-> Before(NoCall.proof)]

\* ------------------------------------------------------------------------
\* u64 operations used by the handlers
\* ------------------------------------------------------------------------

\* u64::saturating_mul by a factor that is a small integer of the model
SaturatingMul(a, k) ==
    LET p == BigMul(a, k) IN IF BigLt(U64_MAX, p) THEN U64_MAX ELSE p

\* u64::saturating_div by a non-zero divisor
SaturatingDiv(a, k) == BigDiv(a, k)

\* u64::saturating_sub
SaturatingSub(a, b) == IF BigLt(a, b) THEN <<>> ELSE BigSub(a, b)

\* u64::checked_sub: None on underflow
CheckedSub(a, b) ==
    IF BigLt(a, b) THEN [some |-> FALSE, val |-> <<>>]
    ELSE [some |-> TRUE, val |-> BigSub(a, b)]

\* u64::saturating_mul of two u64 values
SaturatingMulU64(a, b) ==
    LET p == BigTimes(a, b) IN IF BigLt(U64_MAX, p) THEN U64_MAX ELSE p

\* ------------------------------------------------------------------------
\* Emission constants, as consts.rs computes them
\* ------------------------------------------------------------------------

\* One Ore token, denominated in indivisible units: 10u64.pow(TOKEN_DECIMALS),
\* which the build rejects when it overflows.
ONE_ORE == BigPow(10, TOKEN_DECIMALS)

\* ONE_ORE.saturating_mul(42_000_000), the computation of MAX_SUPPLY
MaxSupply == SaturatingMulU64(ONE_ORE, Big(42000000))

\* The target quantity of ORE to be mined per epoch.
TARGET_EPOCH_REWARDS == SaturatingMul(ONE_ORE, EPOCH_MINUTES)

\* The maximum quantity of ORE that can be mined per epoch.
MAX_EPOCH_REWARDS == SaturatingMul(TARGET_EPOCH_REWARDS, 5)

\* The quantity of ORE each bus is allowed to issue per epoch.
BUS_EPOCH_REWARDS == SaturatingDiv(MAX_EPOCH_REWARDS, BUS_COUNT)

\* The condition of the const_assert: MAX_EPOCH_REWARDS is evenly divisible
\* by BUS_COUNT.
ConstAssert ==
    BigMul(BigDiv(MAX_EPOCH_REWARDS, BUS_COUNT), BUS_COUNT) = MAX_EPOCH_REWARDS

\* ------------------------------------------------------------------------
\* Token program calls made by process_claim
\* ------------------------------------------------------------------------

Failed(res, step, acc) ==
    [res |-> res, step |-> step, acc |-> acc, burn |-> <<>>, paid |-> <<>>]

\* spl_token burn of burn_amount from the treasury token account, signed by
\* the treasury: needs that many tokens in the account.
BurnTokens(acc, burn_amount) ==
    IF BigLt(acc.vault, burn_amount)
    THEN [ok |-> FALSE, acc |-> acc]
    ELSE [ok |-> TRUE,
          acc |-> [acc EXCEPT !.vault = BigSub(acc.vault, burn_amount),
                              !.supply = BigSub(acc.supply, burn_amount),
                              !.burned = BigAdd(acc.burned, burn_amount)]]

\* The same call made with mint_to in place of transfer.
DistributeMinting(acc, beneficiary, burn_amount, claim_amount) ==
    [res |-> "Ok", step |-> "none",
     acc |-> [acc EXCEPT !.supply = BigAdd(acc.supply, claim_amount),
                         !.tokens[beneficiary] =
                             BigAdd(acc.tokens[beneficiary], claim_amount)],
     burn |-> burn_amount, paid |-> claim_amount]

\* The same call with the result of the transfer dropped.
DistributeUnchecked(acc, beneficiary, burn_amount, claim_amount) ==
    IF BigLt(acc.vault, claim_amount)
    THEN [res |-> "Ok", step |-> "transfer", acc |-> acc,
          burn |-> burn_amount, paid |-> <<>>]
    ELSE [res |-> "Ok", step |-> "none",
          acc |-> [acc EXCEPT !.vault = BigSub(acc.vault, claim_amount),
                              !.tokens[beneficiary] =
                                  BigAdd(acc.tokens[beneficiary], claim_amount)],
          burn |-> burn_amount, paid |-> claim_amount]

\* Distribute tokens from treasury to beneficiary: spl_token transfer of
\* claim_amount, which needs that many tokens in the treasury token account;
\* then Ok(()).
Distribute(acc, beneficiary, burn_amount, claim_amount) ==
    IF BigLt(acc.vault, claim_amount)
    THEN Failed("InsufficientFunds", "transfer", acc)
    ELSE [res |-> "Ok", step |-> "none",
          acc |-> [acc EXCEPT !.vault = BigSub(acc.vault, claim_amount),
                              !.tokens[beneficiary] =
                                  BigAdd(acc.tokens[beneficiary], claim_amount)],
          burn |-> burn_amount, paid |-> claim_amount]

\* ------------------------------------------------------------------------
\* process_claim
\* ------------------------------------------------------------------------

\* The account checks of process_claim.  The beneficiary, mint, treasury,
\* treasury tokens and token program passed are the accounts the loaders
\* expect, which leaves load_signer.
ClaimLoads(signed) ==
    IF ~signed THEN "MissingRequiredSignature" ELSE "Ok"

\* Proof::try_from_bytes_mut: the data must carry the proof discriminator.
IsProof(proof) == proof.disc = ProofDiscriminator

\* The same deadline taken from a two-day window.
ClaimDeadlineTwoDays(proof) == proof.last_claim_at + ONE_DAY + ONE_DAY

\* t = proof.last_claim_at.saturating_add(ONE_DAY); timestamps of the model
\* stay below the i64 bound, where the addition is exact.
ClaimDeadline(proof) == proof.last_claim_at + ONE_DAY

\* amount.saturating_mul((t - unix_timestamp) as u64).saturating_div(ONE_DAY)
\* for unix_timestamp < t
BurnAmount(amount, t, unix_timestamp) ==
    SaturatingDiv(SaturatingMul(amount, t - unix_timestamp), ONE_DAY)

\* The same update debiting only the amount paid out.
UpdateProofByPaid(proof, amount, claim_amount, unix_timestamp) ==
    LET b == CheckedSub(proof.balance, amount)
    IN  [ok |-> b.some,
         proof |-> IF b.some
                   THEN [proof EXCEPT
                           !.balance = BigSub(proof.balance, claim_amount),
                           !.last_claim_at = unix_timestamp]
                   ELSE proof]

\* The same update stamping the claim only when nothing was burned.
UpdateProofStampUnburned(proof, amount, claim_amount, unix_timestamp) ==
    LET b == CheckedSub(proof.balance, amount)
    IN  [ok |-> b.some,
         proof |-> IF b.some
                   THEN [proof EXCEPT
                           !.balance = b.val,
                           !.last_claim_at =
                               IF claim_amount = amount THEN unix_timestamp
                               ELSE proof.last_claim_at]
                   ELSE proof]

\* The same update leaving the timestamp alone on a claim of zero.
UpdateProofSkipZero(proof, amount, claim_amount, unix_timestamp) ==
    LET b == CheckedSub(proof.balance, amount)
    IN  [ok |-> b.some,
         proof |-> IF b.some /\ amount # <<>>
                   THEN [proof EXCEPT !.balance = b.val,
                                      !.last_claim_at = unix_timestamp]
                   ELSE proof]

\* The same update stamping the end of the decay window.
UpdateProofStampDeadline(proof, amount, claim_amount, unix_timestamp) ==
    LET b == CheckedSub(proof.balance, amount)
    IN  [ok |-> b.some,
         proof |-> IF b.some
                   THEN [proof EXCEPT
                           !.balance = b.val,
                           !.last_claim_at = unix_timestamp + ONE_DAY]
                   ELSE proof]

\* The same update counting the claim in the totals of the record.
UpdateProofCounting(proof, amount, claim_amount, unix_timestamp) ==
    LET b == CheckedSub(proof.balance, amount)
    IN  [ok |-> b.some,
         proof |-> IF b.some
                   THEN [proof EXCEPT
                           !.balance = b.val,
                           !.last_claim_at = unix_timestamp,
                           !.last_stake_at = unix_timestamp,
                           !.total_rewards = BigSub(@, amount)]
                   ELSE proof]

\* The same update with wrapping_sub in place of checked_sub.
UpdateProofWrapping(proof, amount, claim_amount, unix_timestamp) ==
    [ok |-> TRUE,
     proof |-> [proof EXCEPT
                  !.balance =
                      IF BigLt(proof.balance, amount)
                      THEN BigAdd(BigSub(U64_MAX, BigSub(amount, proof.balance)),
                                  <<1>>)
                      ELSE BigSub(proof.balance, amount),
                  !.last_claim_at = unix_timestamp]]

\* Update miner balance (checked_sub of the full amount, ClaimTooLarge on
\* underflow) and update timestamp.
UpdateProof(proof, amount, claim_amount, unix_timestamp) ==
    LET b == CheckedSub(proof.balance, amount)
    IN  [ok |-> b.some,
         proof |-> IF b.some
                   THEN [proof EXCEPT !.balance = b.val,
                                      !.last_claim_at = unix_timestamp]
                   ELSE proof]

\* Second half of process_claim: debit, stamp, distribute.
Settle(acc, p, beneficiary, amount, burn_amount, claim_amount, unix_timestamp) ==
    LET u == UpdateProof(acc.proofs[p], amount, claim_amount, unix_timestamp)
    IN  IF ~u.ok THEN Failed("ClaimTooLarge", "balance", acc)
        ELSE Distribute([acc EXCEPT !.proofs[p] = u.proof], beneficiary,
                        burn_amount, claim_amount)

\* The handler on the accounts acc: its result, the step that failed, the
\* accounts as the handler left them, and the amounts burned and paid.
ProcessClaim(acc, unix_timestamp, signed, beneficiary, p, amount) ==
    LET loads == ClaimLoads(signed)
        proof == acc.proofs[p]
        t     == ClaimDeadline(proof)
    IN  IF loads # "Ok" THEN Failed(loads, "load", acc)
        ELSE IF ~IsProof(proof) THEN Failed("InvalidAccountData", "proof", acc)
        ELSE IF unix_timestamp < t
        THEN LET burn_amount == BurnAmount(amount, t, unix_timestamp)
                 b == BurnTokens(acc, burn_amount)
             IN  IF ~b.ok THEN Failed("InsufficientFunds", "burn", acc)
                 ELSE Settle(b.acc, p, beneficiary, amount, burn_amount,
                             SaturatingSub(amount, burn_amount), unix_timestamp)
        ELSE Settle(acc, p, beneficiary, amount, <<>>, amount, unix_timestamp)

\* ------------------------------------------------------------------------
\* process_register
\* ------------------------------------------------------------------------

\* load_uninitialized_pda: the account key must be the address the seeds and
\* the bump derive, and the account must hold no data yet.
LoadUninitializedPda(acc, proof_info, signer, bump) ==
    IF proof_info # ProofAddress(signer) \/ bump # ProofBump(signer)
    THEN "InvalidSeeds"
    ELSE IF acc.proofs[proof_info] # ZeroProof
    THEN "AccountAlreadyInitialized"
    ELSE "Ok"

\* The same checks with the bump of the call replaced by the bump that
\* derives the address.
RegisterLoadsCorrectedBump(acc, signed, signer, proof_info, bump) ==
    IF ~signed THEN "MissingRequiredSignature"
    ELSE LoadUninitializedPda(acc, proof_info, signer, ProofBump(signer))

\* The same checks without the load of the proof account.
RegisterLoadsNoPda(acc, signed, signer, proof_info, bump) ==
    IF ~signed THEN "MissingRequiredSignature" ELSE "Ok"

\* The account checks of process_register, in order; "Ok" when all pass.
\* The system program and the slot-hashes sysvar passed are the accounts the
\* loaders expect, which leaves load_signer and load_uninitialized_pda.
RegisterLoads(acc, signed, signer, proof_info, bump) ==
    IF ~signed THEN "MissingRequiredSignature"
    ELSE LoadUninitializedPda(acc, proof_info, signer, bump)

\* create_pda: the account gets zero-filled data of the size of a proof.
CreatePda(acc, proof_info) == [acc EXCEPT !.proofs[proof_info] = ZeroProof]

\* The same initialization hashing the signer key alone.
InitializeProofKeyOnly(proof, signer, unix_timestamp, slot_hashes) ==
    [proof EXCEPT !.disc = ProofDiscriminator,
                  !.authority = signer,
                  !.balance = <<>>,
                  !.challenge = Hashv(signer, 0),
                  !.last_hash = ZeroHash,
                  !.last_hash_at = unix_timestamp,
                  !.last_stake_at = unix_timestamp,
                  !.total_hashes = <<>>,
                  !.total_rewards = <<>>]

\* Initialize proof: the fields process_register assigns.  last_claim_at is
\* not among them and keeps the zero of the allocation.
InitializeProof(proof, signer, unix_timestamp, slot_hashes) ==
    [proof EXCEPT !.disc = ProofDiscriminator,
                  !.authority = signer,
                  !.balance = <<>>,
                  !.challenge = Hashv(signer, slot_hashes),
                  !.last_hash = ZeroHash,
                  !.last_hash_at = unix_timestamp,
                  !.last_stake_at = unix_timestamp,
                  !.total_hashes = <<>>,
                  !.total_rewards = <<>>]

ProcessRegister(acc, unix_timestamp, slot_hashes, signed, signer, proof_info, bump) ==
    LET loads == RegisterLoads(acc, signed, signer, proof_info, bump)
    IN  IF loads # "Ok" THEN Failed(loads, "load", acc)
        ELSE LET created == CreatePda(acc, proof_info)
             IN  [res |-> "Ok", step |-> "none",
                  acc |-> [created EXCEPT !.proofs[proof_info] =
                             InitializeProof(created.proofs[proof_info],
                                             signer, unix_timestamp,
                                             slot_hashes)],
                  burn |-> <<>>, paid |-> <<>>]

\* ------------------------------------------------------------------------
\* The runtime and the collaborators
\* ------------------------------------------------------------------------

\* An instruction that returns an error leaves no account changed; one that
\* returns Ok(()) leaves the accounts as the handler wrote them.
Commit(pre, r) == IF r.res = "Ok" THEN r.acc ELSE pre

Store(post) ==
    /\ proofs' = post.proofs
    /\ treasury_tokens' = post.vault
    /\ mint_supply' = post.supply
    /\ tokens' = post.tokens
    /\ burned' = post.burned

\* The record of a call: its inputs, its outcome, and in moved the amount
\* its token calls had taken out of the treasury token account when the
\* handler returned.
Call(op, signed, signer, p, amount, bump, r) ==
    [op |-> op, signed |-> signed, signer |-> signer, proof |-> p,
     amount |-> amount, bump |-> bump, res |-> r.res, step |-> r.step,
     burn |-> r.burn, paid |-> r.paid,
     moved |-> BigSub(Ledger.vault, r.acc.vault)]

\* A step that changed an account counts against MaxOps.
Count(changed) == nops' = IF changed THEN nops + 1 ELSE nops

\* The calls of the model: every signed call, and one call that lacks the
\* signature.  In the actions r is the result of the handler on the
\* accounts of the current state.
RegisterCalls ==
    [signed : {TRUE}, signer : Miners, proof : ProofAddresses, bump : Bumps]
    \cup {[signed |-> FALSE, signer |-> "alice",
           proof |-> ProofAddress("alice"), bump |-> ProofBump("alice")]}

ClaimCalls ==
    [signed : {TRUE}, signer : Miners, proof : ProofAddresses,
     amount : ClaimAmounts]
    \cup {[signed |-> FALSE, signer |-> "alice",
           proof |-> ProofAddress("alice"), amount |-> <<501>>]}

Register ==
    \E c \in RegisterCalls :
        \E r \in {ProcessRegister(Ledger, now, slot_hash, c.signed, c.signer,
                                   c.proof, c.bump)} :
            /\ r.res = "Ok" => nops < MaxOps
            /\ Store(Commit(Ledger, r))
            /\ last' = [call |-> Call("register", c.signed, c.signer, c.proof,
                                      <<>>, c.bump, r),
                        pre |-> Before(c.proof)]
            /\ Count(r.res = "Ok")
            /\ UNCHANGED <<now, slot_hash, claimed>>

Claim ==
    \E c \in ClaimCalls :
        \E r \in {ProcessClaim(Ledger, now, c.signed, TokenAccount(c.signer),
                                c.proof, c.amount)} :
            /\ r.res = "Ok" => nops < MaxOps
            /\ Store(Commit(Ledger, r))
            /\ last' = [call |-> Call("claim", c.signed, c.signer, c.proof,
                                      c.amount, 0, r),
                        pre |-> Before(c.proof)]
            /\ Count(r.res = "Ok")
            /\ claimed' = IF r.res = "Ok"
                           THEN [claimed EXCEPT
                                   ![c.proof] = BigAdd(@, c.amount)]
                           ELSE claimed
            /\ UNCHANGED <<now, slot_hash>>

\* The external mining step: credits a reward to a registered proof and
\* extends its hash chain.
Mine ==
    /\ nops < MaxOps
    /\ \E p \in ProofAddresses, reward \in RewardAmounts :
         /\ IsProof(proofs[p])
         /\ proofs' = [proofs EXCEPT
                ![p].balance = BigAdd(@, reward),
                ![p].total_rewards = BigAdd(@, reward),
                ![p].total_hashes = BigAdd(@, <<1>>),
                ![p].last_hash = <<"mined", proofs[p].authority,
                                   proofs[p].challenge[3]>>,
                ![p].challenge = <<"next", proofs[p].authority, @[3] + 1>>,
                ![p].last_hash_at = now]
         /\ last' = [call |-> [NoCall EXCEPT !.op = "mine", !.proof = p,
                                             !.amount = reward],
                     pre |-> Before(p)]
    /\ Count(TRUE)
    /\ UNCHANGED <<treasury_tokens, mint_supply, tokens, burned, now, slot_hash,
                   claimed>>

\* The clock advances and the slot-hashes sysvar gets a new first entry.
Tick ==
    /\ \E dt \in TickSteps :
         /\ now + dt <= MaxTime
         /\ now' = now + dt
    /\ slot_hash' = (slot_hash + 1) % NumSlotHashes
    /\ last' = [call |-> NoCall, pre |-> Before(NoCall.proof)]
    /\ UNCHANGED <<proofs, treasury_tokens, mint_supply, tokens, burned, nops,
                   claimed>>

Next == Register \/ Claim \/ Mine \/ Tick

Spec == Init /\ [][Next]_vars

\* ------------------------------------------------------------------------
\* Properties.  Each speaks of the state right after a call: last.call holds
\* the call and its outcome, last.pre what its accounts held before it, and
\* now is the time of the call.
\* ------------------------------------------------------------------------

ClaimCalled == last.call.op = "claim"

ClaimSucceeded == ClaimCalled /\ last.call.res = "Ok"

RegisterCalled == last.call.op = "register"

\* The proof account the call names, as it is now.
Named == proofs[last.call.proof]

\* The beneficiary token account of the call.
Dest == TokenAccount(last.call.signer)

\* Seconds since the last claim recorded in the named proof, at the call.
Elapsed == now - last.pre.proof.last_claim_at

RECURSIVE SumOver(_, _)
SumOver(f, S) ==
    IF S = {} THEN <<>>
    ELSE LET x == CHOOSE y \in S : TRUE
         IN  BigAdd(f[x], SumOver(f, S \ {x}))

\* Tokens in circulation: the treasury token account and the beneficiaries.
Circulating(vault, tk) == BigAdd(vault, SumOver(tk, Beneficiaries))

\* The accounts the call names hold what they held before it.
Untouched ==
    /\ Named = last.pre.proof
    /\ treasury_tokens = last.pre.vault
    /\ mint_supply = last.pre.supply
    /\ tokens = last.pre.tokens
    /\ burned = last.pre.burned

\* C1 (as stated): a signed claim of more than the record's balance fails with
\* the claim-too-large error and leaves balance, last_claim_at, destination
\* and treasury as they were, whatever time has passed since the last claim.
C1_TooLargeFailsClaimTooLarge ==
    (/\ ClaimCalled
     /\ last.call.signed
     /\ IsProof(last.pre.proof)
     /\ BigLt(last.pre.proof.balance, last.call.amount))
    => /\ last.call.res = "ClaimTooLarge"
       /\ Named.balance = last.pre.proof.balance
       /\ Named.last_claim_at = last.pre.proof.last_claim_at
       /\ tokens[Dest] = last.pre.tokens[Dest]
       /\ burned = last.pre.burned
       /\ treasury_tokens = last.pre.vault

\* C2 (as stated): a claim signed by an identity other than the authority
\* stored in the record never debits the record, never changes its
\* last_claim_at and never moves tokens out of the treasury.
C2_OnlyAuthorityClaims ==
    (/\ ClaimCalled
     /\ IsProof(last.pre.proof)
     /\ last.call.signer # last.pre.proof.authority)
    => /\ Named.balance = last.pre.proof.balance
       /\ Named.last_claim_at = last.pre.proof.last_claim_at
       /\ treasury_tokens = last.pre.vault

\* C3 (as stated): a successful claim made 0 <= elapsed < one day after the
\* last one burns exactly floor(amount * (ONE_DAY - elapsed) / ONE_DAY), in
\* exact arithmetic, and pays amount minus that burn.
C3_LinearDecay ==
    (ClaimSucceeded /\ 0 <= Elapsed /\ Elapsed < ONE_DAY)
    => LET exact == BigDiv(BigMul(last.call.amount, ONE_DAY - Elapsed), ONE_DAY)
       IN  /\ last.call.burn = exact
           /\ last.call.paid = BigSub(last.call.amount, exact)
           /\ burned = BigAdd(last.pre.burned, exact)
           /\ tokens[Dest] = BigAdd(last.pre.tokens[Dest],
                                    BigSub(last.call.amount, exact))

\* The case of C4: a signed claim on a registered proof, a full day or more
\* after its last claim, of no more than its balance.
C4_Case ==
    /\ ClaimCalled
    /\ last.call.signed
    /\ IsProof(last.pre.proof)
    /\ Elapsed >= ONE_DAY
    /\ BigLeq(last.call.amount, last.pre.proof.balance)

\* The claim succeeded without burn: the record is debited by amount and
\* amount moved from the treasury token account to the beneficiary.
C4_PaidInFull ==
    /\ last.call.res = "Ok"
    /\ last.call.burn = <<>>
    /\ burned = last.pre.burned
    /\ Named.balance = BigSub(last.pre.proof.balance, last.call.amount)
    /\ treasury_tokens = BigSub(last.pre.vault, last.call.amount)
    /\ tokens[Dest] = BigAdd(last.pre.tokens[Dest], last.call.amount)

\* C4 (as stated): if a full day or more has elapsed since last_claim_at and
\* amount <= balance, the claim succeeds with no burn, the balance becomes
\* balance - amount and amount tokens move from treasury to destination.
C4_FullDaySucceeds == C4_Case => C4_PaidInFull

\* C4 (amended): the same provided the treasury token account holds at least
\* amount tokens.
C4_FullDayFundedSucceeds ==
    (C4_Case /\ BigLeq(last.call.amount, last.pre.vault)) => C4_PaidInFull

\* A claim of a non-zero amount exactly one day after an earlier claim, paid
\* in full.
C4_Witness ==
    /\ C4_Case
    /\ C4_PaidInFull
    /\ last.call.amount # <<>>
    /\ last.pre.proof.last_claim_at > 0
    /\ Elapsed = ONE_DAY

\* C5 (as stated): right after a successful registration the record has the
\* signer as authority, zero balance, zero last_hash, zero counters, and
\* last_hash_at, last_stake_at and last_claim_at all equal to the
\* registration time.
C5_RegisteredFields ==
    (RegisterCalled /\ last.call.res = "Ok")
    => /\ Named.authority = last.call.signer
       /\ Named.balance = <<>>
       /\ Named.last_hash = ZeroHash
       /\ Named.total_hashes = <<>>
       /\ Named.total_rewards = <<>>
       /\ Named.last_hash_at = now
       /\ Named.last_stake_at = now
       /\ Named.last_claim_at = now

\* C6: a registration at an address that already holds an initialized record
\* fails and leaves every field of that record as it was.
C6_DuplicateRegistrationFails ==
    (RegisterCalled /\ IsProof(last.pre.proof))
    => /\ last.call.res # "Ok"
       /\ Named = last.pre.proof

\* A signer registers again, with the right address and bump, after the
\* record was mined on and claimed from.
C6_Witness ==
    /\ RegisterCalled
    /\ last.call.signed
    /\ last.call.proof = ProofAddress(last.call.signer)
    /\ last.call.bump = ProofBump(last.call.signer)
    /\ last.pre.proof.authority = last.call.signer
    /\ last.pre.proof.total_hashes # <<>>
    /\ last.pre.proof.last_claim_at > 0
    /\ last.call.res = "AccountAlreadyInitialized"

\* C7: every successful claim, burn or not, leaves last_claim_at at the time
\* of the claim.
C7_ClaimStampsTime == ClaimSucceeded => Named.last_claim_at = now

\* A successful claim with a burn, half a day after the previous claim.
C7_Witness ==
    /\ ClaimSucceeded
    /\ last.call.burn # <<>>
    /\ last.pre.proof.last_claim_at > 0
    /\ Elapsed = ONE_DAY \div 2
    /\ Named.last_claim_at = now

\* C8: every successful claim debits the record by the full amount asked,
\* which is no more than the balance, also when part of it was burned.
C8_FullDebit ==
    ClaimSucceeded
    => /\ BigLeq(last.call.amount, last.pre.proof.balance)
       /\ Named.balance = BigSub(last.pre.proof.balance, last.call.amount)

\* A successful claim that burned part of the amount and paid the rest.
C8_Witness ==
    /\ ClaimSucceeded
    /\ last.call.burn # <<>>
    /\ last.call.paid # <<>>
    /\ last.call.paid # last.call.amount
    /\ Named.balance = BigSub(last.pre.proof.balance, last.call.amount)

\* C9: a claim or registration in which a step failed leaves the record, the
\* treasury token account, the mint and the beneficiaries as before the call.
C9_AllOrNothing ==
    ((ClaimCalled \/ RegisterCalled)
     /\ (last.call.res # "Ok" \/ last.call.step # "none"))
    => Untouched

\* A claim of no more than the balance whose transfer failed, after the
\* record was debited, for lack of tokens in the treasury token account.
C9_Witness ==
    /\ ClaimCalled
    /\ last.call.step = "transfer"
    /\ last.call.res = "InsufficientFunds"
    /\ last.call.amount # <<>>
    /\ BigLeq(last.call.amount, last.pre.proof.balance)
    /\ BigLt(last.pre.vault, last.call.amount)
    /\ Untouched

\* C10: over a claim the sum of treasury tokens, beneficiary tokens and burned
\* tokens stays the same, the tokens in circulation and the mint supply do
\* not grow, and a supply within MAX_SUPPLY stays within it.
C10_ClaimConserves ==
    ClaimCalled
    => /\ BigAdd(Circulating(treasury_tokens, tokens), burned)
            = BigAdd(Circulating(last.pre.vault, last.pre.tokens),
                     last.pre.burned)
       /\ BigLeq(Circulating(treasury_tokens, tokens),
                 Circulating(last.pre.vault, last.pre.tokens))
       /\ BigLeq(mint_supply, last.pre.supply)
       /\ (BigLeq(last.pre.supply, MAX_SUPPLY) => BigLeq(mint_supply, MAX_SUPPLY))

\* A successful claim that burned tokens and paid tokens.
C10_Witness ==
    /\ ClaimSucceeded
    /\ last.call.burn # <<>>
    /\ last.call.paid # <<>>
    /\ burned = BigAdd(last.pre.burned, last.call.burn)
    /\ tokens[Dest] = BigAdd(last.pre.tokens[Dest], last.call.paid)

\* C11: the balance of every record is a u64 value equal to the total the
\* mining steps credited minus the sum of the amounts of its successful
\* claims, and each successful claim took from it an amount no greater than
\* what it held.
C11_BalanceIsCreditedMinusClaimed ==
    /\ \A p \in ProofAddresses :
          /\ BigLeq(proofs[p].balance, U64_MAX)
          /\ BigLeq(claimed[p], proofs[p].total_rewards)
          /\ proofs[p].balance = BigSub(proofs[p].total_rewards, claimed[p])
    /\ ClaimSucceeded
       => /\ BigLeq(last.call.amount, last.pre.proof.balance)
          /\ BigAdd(Named.balance, last.call.amount) = last.pre.proof.balance

\* A record credited, claimed from with part of the credit left, and
\* credited again.
C11_Witness ==
    /\ last.call.op = "mine"
    /\ Named.total_hashes = <<2>>
    /\ claimed[last.call.proof] # <<>>
    /\ BigLt(claimed[last.call.proof], last.pre.proof.total_rewards)
    /\ Named.balance = BigSub(Named.total_rewards, claimed[last.call.proof])

\* C12 (as stated): a registration or claim by one miner leaves the record of
\* every other miner as it was.
C12_OtherRecordsUnchanged ==
    [][\A m \in Miners :
          (last'.call.op \in {"claim", "register"} /\ last'.call.signer # m)
          => proofs'[ProofAddress(m)] = proofs[ProofAddress(m)]]_vars

\* C13: a registration whose bump or target address is not the one derived
\* from the seeds ("proof", signer) fails and creates no record, so a
\* registration succeeds only with the signer's own address and bump, and
\* every record sits at the address derived from its authority.
C13_BumpVerified ==
    /\ (/\ RegisterCalled
         /\ \/ last.call.bump # ProofBump(last.call.signer)
            \/ last.call.proof # ProofAddress(last.call.signer))
       => /\ last.call.res # "Ok"
          /\ Named = last.pre.proof
    /\ \A m \in Miners :
          IsProof(proofs[ProofAddress(m)])
          => proofs[ProofAddress(m)].authority = m

\* A signed registration at the signer's own, still empty, address with a
\* bump that does not derive it.
C13_Witness ==
    /\ RegisterCalled
    /\ last.call.signed
    /\ last.call.proof = ProofAddress(last.call.signer)
    /\ last.call.bump # ProofBump(last.call.signer)
    /\ last.pre.proof = ZeroProof
    /\ last.call.res = "InvalidSeeds"
    /\ ~IsProof(Named)

\* C14: BUS_EPOCH_REWARDS * BUS_COUNT is exactly MAX_EPOCH_REWARDS, the
\* build-time assertion holds, and ONE_ORE, MAX_SUPPLY, TARGET_EPOCH_REWARDS
\* and MAX_EPOCH_REWARDS are the exact products, below the 64-bit bound, so
\* that the supply of every state is within the MAX_SUPPLY computed.
C14_EmissionConstantsExact ==
    /\ BigLeq(mint_supply, MaxSupply)
    /\ BigMul(BUS_EPOCH_REWARDS, BUS_COUNT) = MAX_EPOCH_REWARDS
    /\ ConstAssert
    /\ BigLeq(ONE_ORE, U64_MAX)
    /\ MaxSupply = BigTimes(ONE_ORE, Big(42000000))
    /\ MaxSupply = MAX_SUPPLY
    /\ TARGET_EPOCH_REWARDS = BigMul(ONE_ORE, EPOCH_MINUTES)
    /\ MAX_EPOCH_REWARDS = BigMul(BigMul(ONE_ORE, EPOCH_MINUTES), 5)
    /\ BigLt(MAX_SUPPLY, U64_MAX)
    /\ BigLt(MAX_EPOCH_REWARDS, U64_MAX)

\* The constants at their values: ONE_ORE = 10^11, MAX_EPOCH_REWARDS =
\* 5 * 10^11 and BUS_EPOCH_REWARDS = 62_500_000_000, eight of which make
\* MAX_EPOCH_REWARDS, with a minted supply below MAX_SUPPLY.
C14_Witness ==
    /\ mint_supply # <<>>
    /\ BigLt(mint_supply, MaxSupply)
    /\ ONE_ORE = <<0, 0, 1000>>
    /\ MAX_EPOCH_REWARDS = <<0, 0, 5000>>
    /\ BUS_EPOCH_REWARDS = <<0, 0, 625>>
    /\ BigTimes(BUS_EPOCH_REWARDS, Big(BUS_COUNT)) = MAX_EPOCH_REWARDS
    /\ DivRem(MAX_EPOCH_REWARDS, BUS_COUNT).r = 0

\* C15 (as stated): a claim that fails a precondition check, the check of
\* the amount against the balance included, has issued no movement out of
\* the treasury token account before the check.
C15_ChecksBeforeMovement ==
    (ClaimCalled /\ last.call.res \in {"MissingRequiredSignature",
                                        "InvalidAccountData", "ClaimTooLarge"})
    => last.call.moved = <<>>

\* C16: a claim, successful or failed, leaves every field of the record it
\* names other than balance and last_claim_at as it was.
C16_ClaimFrame ==
    ClaimCalled
    => Named = [last.pre.proof EXCEPT
                  !.balance = Named.balance,
                  !.last_claim_at = Named.last_claim_at]

\* A successful claim that changed the balance and last_claim_at of a
\* record the mining step had written.
C16_Witness ==
    /\ ClaimSucceeded
    /\ last.pre.proof.total_hashes # <<>>
    /\ last.pre.proof.last_hash # ZeroHash
    /\ Named.balance # last.pre.proof.balance
    /\ Named.last_claim_at # last.pre.proof.last_claim_at
    /\ Named.authority = last.pre.proof.authority
    /\ Named.challenge = last.pre.proof.challenge
    /\ Named.total_rewards = last.pre.proof.total_rewards

\* C17: the challenge of a newly registered record is the hash of the
\* signer's identity and the current first beacon entry; registrations of
\* two identities, or against two beacon entries, get the same challenge
\* only when both the identity and the entry are the same, whatever the
\* time and whatever the account held.
C17_ChallengeFromIdentityAndBeacon ==
    /\ (RegisterCalled /\ last.call.res = "Ok")
       => Named.challenge = Hashv(last.call.signer, slot_hash)
    /\ \A s1, s2 \in Miners, h1, h2 \in 0 .. NumSlotHashes - 1 :
          (InitializeProof(proofs[ProofAddress(s1)], s1, now, h1).challenge
             = InitializeProof(ZeroProof, s2, StartTime, h2).challenge)
          <=> (s1 = s2 /\ h1 = h2)

\* A successful registration after the beacon moved on, with the other
\* miner registered against the earlier beacon entry.
C17_Witness ==
    /\ RegisterCalled
    /\ last.call.res = "Ok"
    /\ slot_hash # 0
    /\ Named.challenge = Hashv(last.call.signer, slot_hash)
    /\ \E m \in Miners :
          /\ m # last.call.signer
          /\ proofs[ProofAddress(m)].challenge = Hashv(m, 0)
          /\ proofs[ProofAddress(m)].challenge # Named.challenge

C19_ZeroClaimResetsClock ==
    /\ (/\ ClaimCalled
         /\ last.call.signed
         /\ IsProof(last.pre.proof)
         /\ last.call.amount = <<>>)
       => /\ last.call.res = "Ok"
          /\ last.call.moved = <<>>
          /\ treasury_tokens = last.pre.vault
          /\ mint_supply = last.pre.supply
          /\ tokens = last.pre.tokens
          /\ burned = last.pre.burned
          /\ Named = [last.pre.proof EXCEPT !.last_claim_at = now]
    /\ (/\ ClaimSucceeded
         /\ last.call.amount # <<>>
         /\ claimed[last.call.proof] = last.call.amount
         /\ last.pre.proof.last_claim_at > 0
         /\ Elapsed < ONE_DAY)
       => /\ last.call.burn =
                SaturatingDiv(SaturatingMul(last.call.amount, ONE_DAY - Elapsed),
                              ONE_DAY)
          /\ last.call.paid = BigSub(last.call.amount, last.call.burn)

\* A successful non-zero claim with a burn, on a record with credit whose
\* only earlier claims were claims of zero, the last less than a day ago.
C19_Witness ==
    /\ ClaimSucceeded
    /\ last.call.amount # <<>>
    /\ claimed[last.call.proof] = last.call.amount
    /\ last.pre.proof.last_claim_at > 0
    /\ Elapsed < ONE_DAY
    /\ last.call.burn # <<>>
    /\ BigLt(last.call.paid, last.call.amount)

====
